---- MODULE Spec2Model ----
\* A model of analyze_sse.py: the scan of a log for SSE part-update events, the
\* grouping of the updates by (messageID, part id), the pairwise additivity
\* check of each part history and the duplicate-part-id report of __main__.
EXTENDS Integers, Sequences, FiniteSets, TLC

\* ---------------------------------------------------------------- bounds
\* Lines of a noisy log (specification Spec).
MaxLines == 3
\* Updates of the single part history of specification SpecHistory.
MaxUpdates == 3
\* Length of a text of specification SpecHistory.
MaxTextLen == 2
\* Lines of a log of specification SpecGroup.
MaxGroupLines == 4

\* ---------------------------------------------------------------- values
\* A text is a sequence of characters.
Chars == {"a", "b"}
Texts == UNION {[1..n -> Chars] : n \in 0..MaxTextLen}

\* JSON values as json.loads returns them: a dict holds exactly its present
\* keys, a string holds its value, anything else (list, number, null) is no dict.
JStr(s) == [k |-> "string", v |-> s]
JObj(o) == [k |-> "object", o |-> o]
JArray == [k |-> "array"]
EmptyObj == [k |-> "object", o |-> [x \in {} |-> 0]]
\* Python's None.
None == [k |-> "none"]

\* The event type analyze_sse_logs looks for.
PartUpdated == "message.part.updated"

\* The text after the marker of a line: nothing, text that is no JSON, or the
\* text of a JSON value (held as the value it denotes).
NoText == [k |-> "empty"]
NotJson == [k |-> "invalid"]

\* A log line: whether it holds the marker 'SSE line: data: ' and what follows it.
Line(marker, rest) == [marker |-> marker, rest |-> rest]

\* ---------------------------------------------------------------- the scan
\* sse_pattern.search(line): the marker followed by at least one character.
NoMatch == [k |-> "nomatch"]
SsePatternSearch(line) ==
  IF line.marker /\ line.rest # NoText THEN line.rest ELSE NoMatch

\* dict.get(key, default)
DictGet(d, key, default) == IF key \in DOMAIN d.o THEN d.o[key] ELSE default
\* An object with a .get method.
IsDict(d) == d.k = "object"
\* A variant of Truthy that takes the empty string for an identifier
\* ('is not None' in place of the truth value).
TruthyNotNone(v) == v.k = "string"

\* Truth value of an identifier: None and '' are false.
Truthy(v) == v.k = "string" /\ v.v # ""

\* What one iteration of the loop over the file does with a line: nothing, an
\* append to message_parts, or an exception no handler catches.
Skip == [op |-> "skip"]
Raise == [op |-> "raise"]
Store(message_id, part_id, update) ==
  [op |-> "append", message_id |-> message_id, part_id |-> part_id, update |-> update]

ProcessLine(line) ==
  LET match == SsePatternSearch(line) IN
  IF match = NoMatch THEN Skip
  ELSE IF match = NotJson THEN Skip
  ELSE LET data == match IN
    IF ~IsDict(data) THEN Raise
    ELSE IF DictGet(data, "type", None) # JStr(PartUpdated) THEN Skip
    ELSE LET props == DictGet(data, "properties", EmptyObj) IN
      IF ~IsDict(props) THEN Raise
      ELSE LET part == DictGet(props, "part", EmptyObj) IN
        IF ~IsDict(part) THEN Raise
        ELSE LET message_id == DictGet(part, "messageID", None)
                 part_id == DictGet(part, "id", None)
                 text == DictGet(part, "text", JStr(<<>>))
                 part_type == DictGet(part, "type", None)
             IN IF Truthy(message_id) /\ Truthy(part_id)
                THEN Store(message_id.v, part_id.v,
                           [text |-> text.v, type |-> part_type, full_data |-> part])
                ELSE Skip

\* message_parts is an insertion-ordered dict of insertion-ordered dicts of
\* lists: a sequence of [message_id, parts], parts a sequence of [part_id, updates].
MsgIndex(mp, m) ==
  IF \E x \in 1..Len(mp) : mp[x].message_id = m
  THEN CHOOSE x \in 1..Len(mp) : mp[x].message_id = m
  ELSE 0

PartIndex(parts, p) ==
  IF \E x \in 1..Len(parts) : parts[x].part_id = p
  THEN CHOOSE x \in 1..Len(parts) : parts[x].part_id = p
  ELSE 0

\* A variant of AppendUpdate that merges an update into the one before it when
\* their texts are equal.
AppendUpdateDistinct(mp, m, p, u) ==
  LET mp1 == IF MsgIndex(mp, m) = 0
             THEN Append(mp, [message_id |-> m, parts |-> <<>>]) ELSE mp
      mx == MsgIndex(mp1, m)
      parts == mp1[mx].parts
      parts1 == IF PartIndex(parts, p) = 0
                THEN Append(parts, [part_id |-> p, updates |-> <<>>]) ELSE parts
      px == PartIndex(parts1, p)
      updates == parts1[px].updates
  IN [mp1 EXCEPT ![mx].parts =
        [parts1 EXCEPT ![px].updates =
           IF updates # <<>> /\ updates[Len(updates)].text = u.text
           THEN updates ELSE Append(updates, u)]]

\* message_parts[message_id][part_id].append(update); a missing key is created
\* at the end of its dict.
AppendUpdate(mp, m, p, u) ==
  LET mp1 == IF MsgIndex(mp, m) = 0
             THEN Append(mp, [message_id |-> m, parts |-> <<>>]) ELSE mp
      mx == MsgIndex(mp1, m)
      parts == mp1[mx].parts
      parts1 == IF PartIndex(parts, p) = 0
                THEN Append(parts, [part_id |-> p, updates |-> <<>>]) ELSE parts
      px == PartIndex(parts1, p)
  IN [mp1 EXCEPT ![mx].parts = [parts1 EXCEPT ![px].updates = Append(@, u)]]

\* ---------------------------------------------------------------- additivity
\* A variant of StartsWith that wants at least one character after the prefix.
StartsWithMore(text, prefix) ==
  Len(prefix) < Len(text) /\ SubSeq(text, 1, Len(prefix)) = prefix

\* text.startswith(prev_text)
StartsWith(text, prefix) ==
  Len(prefix) <= Len(text) /\ SubSeq(text, 1, Len(prefix)) = prefix

Min(a, b) == IF a <= b THEN a ELSE b

\* The loop over j: extends common_prefix while the characters agree.
RECURSIVE CommonPrefixFrom(_, _, _, _)
CommonPrefixFrom(prev_text, text, j, common_prefix) ==
  IF j < Min(Len(prev_text), Len(text)) /\ prev_text[j + 1] = text[j + 1]
  THEN CommonPrefixFrom(prev_text, text, j + 1, Append(common_prefix, prev_text[j + 1]))
  ELSE common_prefix

CommonPrefix(prev_text, text) == CommonPrefixFrom(prev_text, text, 0, <<>>)

\* if prev_text and text: if not text.startswith(prev_text)
ContentChange(prev_text, text) ==
  prev_text # <<>> /\ text # <<>> /\ ~StartsWith(text, prev_text)

\* if common_prefix: prefix_changes.append(...)
RecordsFinding(prev_text, text) ==
  ContentChange(prev_text, text) /\ CommonPrefix(prev_text, text) # <<>>

\* A variant of Finding that reports the enumerate index itself.
FindingZeroBased(message_id, part_id, i, prev_text, text) ==
  [message_id |-> message_id, part_id |-> part_id, update_num |-> i,
   prev |-> prev_text, curr |-> text, common_prefix |-> CommonPrefix(prev_text, text)]

Finding(message_id, part_id, i, prev_text, text) ==
  [message_id |-> message_id, part_id |-> part_id, update_num |-> i + 1,
   prev |-> prev_text, curr |-> text, common_prefix |-> CommonPrefix(prev_text, text)]

\* A variant of NextPrevText that keeps the last text that was not flagged.
KeepLastGood(prev_text, text) ==
  IF ContentChange(prev_text, text) THEN prev_text ELSE text

\* prev_text = text, at the end of every iteration.
NextPrevText(prev_text, text) == text

\* The findings of a whole grouping, as the three nested loops append them.
RECURSIVE UpdateFindings(_, _, _, _, _)
UpdateFindings(message_id, part_id, updates, i, prev_text) ==
  IF i < Len(updates)
  THEN LET text == updates[i + 1].text IN
       (IF RecordsFinding(prev_text, text)
        THEN << Finding(message_id, part_id, i, prev_text, text) >> ELSE <<>>)
         \o UpdateFindings(message_id, part_id, updates, i + 1, NextPrevText(prev_text, text))
  ELSE <<>>

RECURSIVE PartFindings(_, _)
PartFindings(message_id, parts) ==
  IF parts = <<>> THEN <<>>
  ELSE UpdateFindings(message_id, Head(parts).part_id, Head(parts).updates, 0, <<>>)
         \o PartFindings(message_id, Tail(parts))

RECURSIVE FindingsOf(_)
FindingsOf(mp) ==
  IF mp = <<>> THEN <<>>
  ELSE PartFindings(Head(mp).message_id, Head(mp).parts) \o FindingsOf(Tail(mp))

\* The grouping a whole file leaves, when no line raises.
RECURSIVE GroupOf(_, _)
GroupOf(mp, lines) ==
  IF lines = <<>> THEN mp
  ELSE LET r == ProcessLine(Head(lines)) IN
       GroupOf(IF r.op = "append"
               THEN AppendUpdate(mp, r.message_id, r.part_id, r.update) ELSE mp,
               Tail(lines))

\* ---------------------------------------------------------------- state
VARIABLES
  pc,             \* where the run is
  log,            \* the lines of the file read so far
  message_parts,  \* the grouping
  msg_pos,        \* position of the loop over message_parts.items()
  part_pos,       \* position of the loop over parts.items()
  i,              \* enumerate index of the loop over updates
  prev_text,
  erasure_found,
  prefix_changes,
  counts,         \* the 'Number of updates' lines printed, one per part
  flagged,        \* the 'CONTENT CHANGE DETECTED' lines printed
  summary,        \* the branch of the summary that was printed
  dup_report      \* the duplicate part id lines printed by __main__

vars == <<pc, log, message_parts, msg_pos, part_pos, i, prev_text, erasure_found,
          prefix_changes, counts, flagged, summary, dup_report>>

scan_vars == <<msg_pos, part_pos, i, prev_text, erasure_found, prefix_changes,
               counts, flagged, summary, dup_report>>

\* A variant of FirstPrevText that carries prev_text over from the part before.
FirstPrevTextKept == prev_text

\* prev_text = "", before the loop over the updates of a part.
FirstPrevText == <<>>

Init ==
  /\ pc = "read"
  /\ log = <<>>
  /\ message_parts = <<>>
  /\ msg_pos = 0
  /\ part_pos = 0
  /\ i = 0
  /\ prev_text = <<>>
  /\ erasure_found = FALSE
  /\ prefix_changes = <<>>
  /\ counts = <<>>
  /\ flagged = <<>>
  /\ summary = "none"
  /\ dup_report = <<>>

\* One iteration of 'for line in f'. An exception other than JSONDecodeError
\* leaves analyze_sse_logs and ends the process.
ReadLine(line) ==
  /\ pc = "read"
  /\ log' = Append(log, line)
  /\ LET r == ProcessLine(line) IN
       /\ pc' = IF r.op = "raise" THEN "aborted" ELSE "read"
       /\ message_parts' = IF r.op = "append"
                           THEN AppendUpdate(message_parts, r.message_id, r.part_id, r.update)
                           ELSE message_parts
  /\ UNCHANGED scan_vars

\* End of file: erasure_found = False, prefix_changes = [], the outer loop starts.
EndOfFile ==
  /\ pc = "read"
  /\ pc' = "messages"
  /\ msg_pos' = 1
  /\ erasure_found' = FALSE
  /\ prefix_changes' = <<>>
  /\ UNCHANGED <<log, message_parts, part_pos, i, prev_text, counts, flagged,
                 summary, dup_report>>

\* for message_id, parts in message_parts.items()
NextMessage ==
  /\ pc = "messages"
  /\ IF msg_pos <= Len(message_parts)
     THEN pc' = "parts" /\ part_pos' = 1
     ELSE pc' = "summary" /\ UNCHANGED part_pos
  /\ UNCHANGED <<log, message_parts, msg_pos, i, prev_text, erasure_found,
                 prefix_changes, counts, flagged, summary, dup_report>>

\* for part_id, updates in parts.items(): the count is printed, prev_text = "".
NextPart ==
  /\ pc = "parts"
  /\ LET parts == message_parts[msg_pos].parts IN
     IF part_pos <= Len(parts)
     THEN /\ pc' = "updates"
          /\ counts' = Append(counts, [message_id |-> message_parts[msg_pos].message_id,
                                       part_id |-> parts[part_pos].part_id,
                                       n |-> Len(parts[part_pos].updates)])
          /\ prev_text' = FirstPrevText
          /\ i' = 0
          /\ UNCHANGED msg_pos
     ELSE /\ pc' = "messages"
          /\ msg_pos' = msg_pos + 1
          /\ UNCHANGED <<counts, prev_text, i>>
  /\ UNCHANGED <<log, message_parts, part_pos, erasure_found, prefix_changes,
                 flagged, summary, dup_report>>

\* One iteration of 'for i, update in enumerate(updates)'.
CheckUpdate ==
  /\ pc = "updates"
  /\ LET message_id == message_parts[msg_pos].message_id
         part_id == message_parts[msg_pos].parts[part_pos].part_id
         updates == message_parts[msg_pos].parts[part_pos].updates
     IN
     IF i < Len(updates)
     THEN LET text == updates[i + 1].text IN
          /\ erasure_found' = (erasure_found \/ ContentChange(prev_text, text))
          /\ flagged' = IF ContentChange(prev_text, text)
                        THEN Append(flagged, [message_id |-> message_id,
                                              part_id |-> part_id, update_num |-> i + 1])
                        ELSE flagged
          /\ prefix_changes' = IF RecordsFinding(prev_text, text)
                               THEN Append(prefix_changes,
                                           Finding(message_id, part_id, i, prev_text, text))
                               ELSE prefix_changes
          /\ prev_text' = NextPrevText(prev_text, text)
          /\ i' = i + 1
          /\ UNCHANGED <<pc, part_pos>>
     ELSE /\ pc' = "parts"
          /\ part_pos' = part_pos + 1
          /\ UNCHANGED <<erasure_found, flagged, prefix_changes, prev_text, i>>
  /\ UNCHANGED <<log, message_parts, msg_pos, counts, summary, dup_report>>

\* The summary, and the return to __main__.
Summary ==
  /\ pc = "summary"
  /\ summary' = IF erasure_found THEN "erasure" ELSE "clean"
  /\ pc' = "main"
  /\ UNCHANGED <<log, message_parts, msg_pos, part_pos, i, prev_text, erasure_found,
                 prefix_changes, counts, flagged, dup_report>>

\* [part_id for part_id in parts.keys()]
RECURSIVE PartIds(_)
PartIds(parts) ==
  IF parts = <<>> THEN <<>> ELSE <<Head(parts).part_id>> \o PartIds(Tail(parts))

\* The loop of __main__ over message_parts.items(): a message with more than one
\* part id is printed with its part ids.
\* A variant of SeveralParts that also takes a message with one part id.
AnyParts(parts) == Len(parts) >= 1

\* if len(parts) > 1
SeveralParts(parts) == Len(parts) > 1

RECURSIVE DuplicateLines(_)
DuplicateLines(mp) ==
  IF mp = <<>> THEN <<>>
  ELSE (IF SeveralParts(Head(mp).parts)
        THEN << [message_id |-> Head(mp).message_id, part_ids |-> PartIds(Head(mp).parts)] >>
        ELSE <<>>) \o DuplicateLines(Tail(mp))

DuplicateReport ==
  /\ pc = "main"
  /\ dup_report' = DuplicateLines(message_parts)
  /\ pc' = "done"
  /\ UNCHANGED <<log, message_parts, msg_pos, part_pos, i, prev_text, erasure_found,
                 prefix_changes, counts, flagged, summary>>

\* ---------------------------------------------------------------- inputs
\* A payload of the shape the scan looks for, around one part object.
Event(part) ==
  JObj([type |-> JStr(PartUpdated), properties |-> JObj([part |-> part])])

PartOf(m, p, t) ==
  JObj([messageID |-> JStr(m), id |-> JStr(p), type |-> JStr("text"), text |-> JStr(t)])

\* Lines of a noisy log: lines the scan has to pass over, lines whose payload is
\* JSON of another shape, and a few part updates between them.
PassedLines == {
  Line(FALSE, Event(PartOf("m1", "p1", <<"a", "b">>))),
  Line(TRUE, NoText),
  Line(TRUE, NotJson),
  Line(TRUE, JObj([properties |-> JObj([part |-> PartOf("m1", "p1", <<"a", "b">>)])])),
  Line(TRUE, JObj([type |-> JStr("message.updated"),
                   properties |-> JObj([part |-> PartOf("m1", "p1", <<"a", "b">>)])])),
  Line(TRUE, JObj([type |-> JStr(PartUpdated)])),
  Line(TRUE, Event(EmptyObj)),
  Line(TRUE, Event(JObj([id |-> JStr("p1"), text |-> JStr(<<"a", "b">>)]))),
  Line(TRUE, Event(JObj([messageID |-> JStr(""), id |-> JStr("p1"),
                         text |-> JStr(<<"a", "b">>)]))),
  Line(TRUE, Event(JObj([messageID |-> JStr("m1"), text |-> JStr(<<"a", "b">>)]))),
  Line(TRUE, Event(JObj([messageID |-> JStr("m1"), id |-> JStr(""),
                         text |-> JStr(<<"a", "b">>)]))) }

OddShapeLines == {
  Line(TRUE, JArray),
  Line(TRUE, JObj([type |-> JStr(PartUpdated), properties |-> JArray])),
  Line(TRUE, JObj([type |-> JStr(PartUpdated), properties |-> JObj([part |-> JArray])])) }

UpdateLines == {
  Line(TRUE, Event(PartOf("m1", "p1", <<"a", "b">>))),
  Line(TRUE, Event(PartOf("m1", "p1", <<"a", "a">>))),
  Line(TRUE, Event(PartOf("m2", "p1", <<"a", "b">>))) }

NoisyLines == PassedLines \cup OddShapeLines \cup UpdateLines

\* Updates of one part, over every text of the bound, and one without a text key.
HistoryLines ==
  {Line(TRUE, Event(PartOf("m1", "p1", t))) : t \in Texts}
    \cup {Line(TRUE, Event(JObj([messageID |-> JStr("m1"), id |-> JStr("p1")])))}

\* Updates of three parts of two messages, over three texts.
GroupKeys == {<<"m1", "p1">>, <<"m1", "p2">>, <<"m2", "p1">>}
GroupTexts == {<<>>, <<"a">>, <<"a", "b">>}
GroupLines == {Line(TRUE, Event(PartOf(key[1], key[2], t))) : key \in GroupKeys, t \in GroupTexts}

\* ---------------------------------------------------------------- specifications
Analyze ==
  EndOfFile \/ NextMessage \/ NextPart \/ CheckUpdate \/ Summary \/ DuplicateReport

ReadNoisy == Len(log) < MaxLines /\ \E line \in NoisyLines : ReadLine(line)
ReadHistory == Len(log) < MaxUpdates /\ \E line \in HistoryLines : ReadLine(line)
ReadGroup == Len(log) < MaxGroupLines /\ \E line \in GroupLines : ReadLine(line)

Next == ReadNoisy \/ Analyze
NextHistory == ReadHistory \/ Analyze
NextGroup == ReadGroup \/ Analyze

\* A noisy log.
Spec == Init /\ [][Next]_vars
\* The history of one part.
SpecHistory == Init /\ [][NextHistory]_vars
\* Several parts of several messages.
SpecGroup == Init /\ [][NextGroup]_vars

\* ---------------------------------------------------------------- properties
\* The keys of the grouping, and the history of one of them.
Keys(mp) ==
  UNION {{<<mp[x].message_id, mp[x].parts[y].part_id>> : y \in 1..Len(mp[x].parts)} :
           x \in 1..Len(mp)}

History(mp, key) ==
  LET mx == MsgIndex(mp, key[1]) IN
  IF mx = 0 THEN <<>>
  ELSE LET px == PartIndex(mp[mx].parts, key[2]) IN
       IF px = 0 THEN <<>> ELSE mp[mx].parts[px].updates

\* q is a prefix of s, character for character.
IsPrefix(q, s) == Len(q) <= Len(s) /\ \A j \in 1..Len(q) : s[j] = q[j]

\* The longest string that is a prefix of both A and B.
TrueLCP(A, B) ==
  CHOOSE q \in {SubSeq(A, 1, n) : n \in 0..Len(A)} :
    /\ IsPrefix(q, B)
    /\ \A n \in 0..Len(A) : IsPrefix(SubSeq(A, 1, n), B) => n <= Len(q)

\* Update k of a history is a non-empty text that does not extend the non-empty
\* text before it.
Diverges(h, k) ==
  /\ k \in 2..Len(h)
  /\ h[k - 1].text # <<>>
  /\ h[k].text # <<>>
  /\ ~IsPrefix(h[k - 1].text, h[k].text)

\* The positions of the findings, and of the printed alerts, about update k of a key.
FindingsAt(key, k) ==
  {x \in 1..Len(prefix_changes) :
     /\ prefix_changes[x].message_id = key[1]
     /\ prefix_changes[x].part_id = key[2]
     /\ prefix_changes[x].update_num = k}

FlaggedAt(key, k) ==
  {x \in 1..Len(flagged) :
     /\ flagged[x].message_id = key[1]
     /\ flagged[x].part_id = key[2]
     /\ flagged[x].update_num = k}

AnalysisOver == pc \in {"summary", "main", "done"}

\* C1: once the analysis is over, every adjacent pair (A, B) of a history with A
\* and B non-empty and B not starting with A has exactly one finding, and that
\* finding's common_prefix is the longest common prefix of A and B (the empty
\* string when they share no first character).
C1_OneFindingPerDivergence ==
  AnalysisOver =>
    \A key \in Keys(message_parts) :
      LET h == History(message_parts, key) IN
      \A k \in 2..Len(h) :
        Diverges(h, k) =>
          /\ Cardinality(FindingsAt(key, k)) = 1
          /\ \A x \in FindingsAt(key, k) :
               prefix_changes[x].common_prefix = TrueLCP(h[k - 1].text, h[k].text)

\* C2: at the end of the run erasure_found, and with it the branch of the
\* summary, is true exactly when prefix_changes is non-empty.
C2_FlagIffFindings ==
  pc \in {"main", "done"} =>
    /\ erasure_found <=> (prefix_changes # <<>>)
    /\ (summary = "erasure") <=> (prefix_changes # <<>>)

\* Every adjacent pair of non-empty texts of the history is additive.
Additive(h) ==
  \A k \in 2..Len(h) :
    (h[k - 1].text # <<>> /\ h[k].text # <<>>) => IsPrefix(h[k - 1].text, h[k].text)

\* C3: a part whose history is additive has no finding and no alert, and
\* erasure_found stays false while every part is additive.
C3_AdditiveHistoryIsClean ==
  /\ \A key \in Keys(message_parts) :
       Additive(History(message_parts, key)) =>
         /\ \A x \in 1..Len(prefix_changes) :
              <<prefix_changes[x].message_id, prefix_changes[x].part_id>> # key
         /\ \A x \in 1..Len(flagged) :
              <<flagged[x].message_id, flagged[x].part_id>> # key
  /\ (\A key \in Keys(message_parts) : Additive(History(message_parts, key)))
       => (~erasure_found /\ summary # "erasure")

\* An additive history that grows was analysed beside one that is not additive.
C3_Witness ==
  /\ pc = "done"
  /\ \E key \in Keys(message_parts) :
       LET h == History(message_parts, key) IN
       /\ Len(h) >= 2
       /\ Additive(h)
       /\ h[1].text # <<>>
       /\ h[2].text # h[1].text
       /\ h[2].text # <<>>
  /\ \E key \in Keys(message_parts) : ~Additive(History(message_parts, key))

\* A line with a defect of its own: the text after the marker is no JSON, or is
\* JSON that is no object, or is a part update without a usable properties/part
\* structure or without a message or part identifier.
HasKey(d, key) == d.k = "object" /\ key \in DOMAIN d.o

Unidentified(part) ==
  \/ ~HasKey(part, "messageID")
  \/ ~HasKey(part, "id")
  \/ part.o.messageID = JStr("")
  \/ part.o.id = JStr("")

DefectiveLine(line) ==
  /\ line.marker
  /\ line.rest # NoText
  /\ \/ line.rest = NotJson
     \/ line.rest.k # "object"
     \/ /\ HasKey(line.rest, "type")
        /\ line.rest.o.type = JStr(PartUpdated)
        /\ \/ ~HasKey(line.rest, "properties")
           \/ line.rest.o.properties.k # "object"
           \/ ~HasKey(line.rest.o.properties, "part")
           \/ line.rest.o.properties.o.part.k # "object"
           \/ Unidentified(line.rest.o.properties.o.part)

RemoveAt(lines, k) == SubSeq(lines, 1, k - 1) \o SubSeq(lines, k + 1, Len(lines))

\* C4: no line aborts the run, and at the end the grouping and the findings are
\* those of the same log without any one of its defective lines.
C4_DefectiveLineIsHarmless ==
  /\ pc # "aborted"
  /\ pc \in {"main", "done"} =>
       \A k \in 1..Len(log) :
         DefectiveLine(log[k]) =>
           /\ message_parts = GroupOf(<<>>, RemoveAt(log, k))
           /\ prefix_changes = FindingsOf(GroupOf(<<>>, RemoveAt(log, k)))

\* A line without the marker, or whose object payload has another type, or
\* whose properties.part has an absent or empty messageID or id.
PassedOver(line) ==
  \/ ~line.marker
  \/ /\ line.rest.k = "object"
     /\ (~HasKey(line.rest, "type") \/ line.rest.o.type # JStr(PartUpdated))
  \/ /\ HasKey(line.rest, "properties")
     /\ HasKey(line.rest.o.properties, "part")
     /\ line.rest.o.properties.o.part.k = "object"
     /\ Unidentified(line.rest.o.properties.o.part)

\* C5: reading a line without the marker, or of another event type, or without
\* a non-empty messageID and id, leaves the grouping as it was.
C5_PassedLinesAddNothing ==
  [][(Len(log') = Len(log) + 1 /\ PassedOver(log'[Len(log')]))
       => message_parts' = message_parts]_vars

\* After one update, a line without the marker and a line without a part id
\* were read, and the run went on to its end.
C5_Witness ==
  /\ pc = "done"
  /\ Len(log) = 3
  /\ ProcessLine(log[1]).op = "append"
  /\ ~log[2].marker
  /\ log[3].marker /\ PassedOver(log[3])
  /\ HasKey(log[3].rest, "type") /\ log[3].rest.o.type = JStr(PartUpdated)
  /\ Len(message_parts) = 1

\* The updates of the accepted events of a key, in file order.
RECURSIVE EventsFor(_, _)
EventsFor(lines, key) ==
  IF lines = <<>> THEN <<>>
  ELSE LET r == ProcessLine(Head(lines)) IN
       (IF r.op = "append" /\ <<r.message_id, r.part_id>> = key
        THEN <<r.update>> ELSE <<>>) \o EventsFor(Tail(lines), key)

RECURSIVE AcceptedCount(_)
AcceptedCount(lines) ==
  IF lines = <<>> THEN 0
  ELSE (IF ProcessLine(Head(lines)).op = "append" THEN 1 ELSE 0) + AcceptedCount(Tail(lines))

RECURSIVE SumOfLengths(_)
SumOfLengths(parts) ==
  IF parts = <<>> THEN 0 ELSE Len(Head(parts).updates) + SumOfLengths(Tail(parts))

RECURSIVE TotalUpdates(_)
TotalUpdates(mp) ==
  IF mp = <<>> THEN 0 ELSE SumOfLengths(Head(mp).parts) + TotalUpdates(Tail(mp))

RECURSIVE SumOfCounts(_)
SumOfCounts(cs) == IF cs = <<>> THEN 0 ELSE Head(cs).n + SumOfCounts(Tail(cs))

AllKeys == {"m1", "m2"} \X {"p1", "p2"}

\* C6: the history of every key is the sequence of the accepted events of that
\* key in file order, repeated texts included; the history lengths sum to the
\* number of accepted events, and so do the update counts printed.
C6_StableAppendOnly ==
  /\ \A key \in AllKeys : History(message_parts, key) = EventsFor(log, key)
  /\ TotalUpdates(message_parts) = AcceptedCount(log)
  /\ AnalysisOver =>
       /\ SumOfCounts(counts) = AcceptedCount(log)
       /\ \A x \in 1..Len(counts) :
            counts[x].n = Len(EventsFor(log, <<counts[x].message_id, counts[x].part_id>>))

\* A history holds the same text twice in a row, and another key has a history.
C6_Witness ==
  /\ pc = "done"
  /\ Cardinality(Keys(message_parts)) >= 2
  /\ \E key \in Keys(message_parts) :
       LET h == History(message_parts, key) IN
       \E k \in 2..Len(h) : h[k].text = h[k - 1].text /\ h[k].text # <<>>

\* The part ids the grouping holds for a message.
PartIdsOf(mp, m) == {key[2] : key \in {kk \in Keys(mp) : kk[1] = m}}

\* C7: the duplicate part id report names a message exactly when the grouping
\* holds more than one part id for it, and lists each of its part ids once.
C7_DuplicateReport ==
  pc = "done" =>
    /\ \A m \in {key[1] : key \in Keys(message_parts)} :
         (\E x \in 1..Len(dup_report) : dup_report[x].message_id = m)
           <=> Cardinality(PartIdsOf(message_parts, m)) > 1
    /\ \A x \in 1..Len(dup_report) :
         LET ids == dup_report[x].part_ids IN
         /\ {ids[y] : y \in 1..Len(ids)} = PartIdsOf(message_parts, dup_report[x].message_id)
         /\ Len(ids) = Cardinality(PartIdsOf(message_parts, dup_report[x].message_id))

\* One message with two part ids and one message with a single part id.
C7_Witness ==
  /\ pc = "done"
  /\ \E m \in {"m1", "m2"} : Cardinality(PartIdsOf(message_parts, m)) = 2
  /\ \E m \in {"m1", "m2"} : Cardinality(PartIdsOf(message_parts, m)) = 1
  /\ Len(dup_report) = 1

\* Updates k, k+1, k+2 of a history are A, B, C, all non-empty, where B does
\* not extend A and C extends A but not B.
Backtracks(h, k) ==
  /\ k + 2 <= Len(h)
  /\ Diverges(h, k + 1)
  /\ Diverges(h, k + 2)
  /\ IsPrefix(h[k].text, h[k + 2].text)

\* C8: when update i+1 is about to be checked prev_text is the text of update i
\* of the same history (empty before the first), flagged or not; and both steps
\* of a history A, B, C that backtracks are flagged.
C8_BaselineIsPreviousUpdate ==
  /\ pc = "updates" =>
       LET updates == message_parts[msg_pos].parts[part_pos].updates IN
       prev_text = IF i = 0 THEN <<>> ELSE updates[i].text
  /\ AnalysisOver =>
       \A key \in Keys(message_parts) :
         LET h == History(message_parts, key) IN
         \A k \in 1..Len(h) :
           Backtracks(h, k) => FlaggedAt(key, k + 1) # {} /\ FlaggedAt(key, k + 2) # {}

\* A history that backtracks was analysed.
C8_Witness ==
  /\ pc = "done"
  /\ \E key \in Keys(message_parts) : Backtracks(History(message_parts, key), 1)
  /\ Len(flagged) = 2

\* C9: every alert and every finding is about an update that is not the first
\* of its history, whose text is non-empty and which follows a non-empty text.
C9_NoFlagAcrossEmptyText ==
  /\ \A x \in 1..Len(flagged) :
       LET h == History(message_parts, <<flagged[x].message_id, flagged[x].part_id>>)
           n == flagged[x].update_num
       IN n >= 2 /\ n <= Len(h) /\ h[n].text # <<>> /\ h[n - 1].text # <<>>
  /\ \A x \in 1..Len(prefix_changes) :
       LET h == History(message_parts,
                        <<prefix_changes[x].message_id, prefix_changes[x].part_id>>)
           n == prefix_changes[x].update_num
       IN n >= 2 /\ n <= Len(h) /\ h[n].text # <<>> /\ h[n - 1].text # <<>>

\* A history X, "", Y where Y does not start with X was analysed after the part
\* of another history, and nothing was flagged.
C9_Witness ==
  /\ pc = "done"
  /\ Cardinality(Keys(message_parts)) >= 2
  /\ flagged = <<>>
  /\ \E key \in Keys(message_parts) :
       LET h == History(message_parts, key) IN
       /\ Len(h) = 3
       /\ h[1].text # <<>>
       /\ h[2].text = <<>>
       /\ h[3].text # <<>>
       /\ ~IsPrefix(h[1].text, h[3].text)

\* Where a finding lies: its message's place in the grouping, its part's place
\* in the message, its update index.
Place(f) ==
  LET mx == MsgIndex(message_parts, f.message_id) IN
  <<mx, PartIndex(message_parts[mx].parts, f.part_id), f.update_num>>

Before(a, b) ==
  \/ a[1] < b[1]
  \/ a[1] = b[1] /\ a[2] < b[2]
  \/ a[1] = b[1] /\ a[2] = b[2] /\ a[3] < b[3]

\* C10: every finding names a key of the grouping and a position 2..len of its
\* history, prev and curr are the texts before and at that position, and the
\* findings are in the order of messages, then parts, then update index.
C10_FindingsNamePositions ==
  /\ \A x \in 1..Len(prefix_changes) :
       LET f == prefix_changes[x]
           h == History(message_parts, <<f.message_id, f.part_id>>)
       IN /\ <<f.message_id, f.part_id>> \in Keys(message_parts)
          /\ f.update_num >= 2
          /\ f.update_num <= Len(h)
          /\ f.prev = h[f.update_num - 1].text
          /\ f.curr = h[f.update_num].text
  /\ \A x, y \in 1..Len(prefix_changes) :
       x < y => Before(Place(prefix_changes[x]), Place(prefix_changes[y]))

\* Two findings about parts of two messages.
C10_Witness ==
  /\ pc = "done"
  /\ Len(prefix_changes) = 2
  /\ prefix_changes[1].message_id # prefix_changes[2].message_id

====
